---------------------------- MODULE Spec2Model ----------------------------
(***************************************************************************)
(* Model of src/index.js (parallel-stream): the concurrent writable (sink) *)
(* and the concurrent transform built on node's stream.Writable and        *)
(* stream.Transform.                                                       *)
(*                                                                         *)
(* Everything runs on one control thread.  One action of the model is one  *)
(* run-to-completion callback of the event loop: a producer call           *)
(* (write / end), the asynchronous completion of one work invocation or of *)
(* the flush function, one process.nextTick callback of the host, or one   *)
(* read() of the transform's consumer.  Everything such a callback does    *)
(* synchronously (re-entrant emits, once() listeners, the host's           *)
(* onwrite / clearBuffer / finishMaybe) is computed by the operators       *)
(* below, which take the whole state as a record s and return the new one. *)
(*                                                                         *)
(* The host is node's stream implementation of the versions the source     *)
(* addresses at lines 39-41 (a _writableState with getBuffer(),            *)
(* errorEmitted, pendingcb and 'prefinish'); only the parts that the       *)
(* source calls or reads are modelled.                                     *)
(***************************************************************************)
EXTENDS Integers, Sequences, FiniteSets, TLC

\* Bounds of the model.
MaxChunks == 3
MaxConcurrency == 2
\* highWaterMark of the transform's readable side, in objects.
ReadableHWM == 1

VARIABLES
    \* construction parameters
    variant,          \* "writable" (line 28) or "transform" (line 142)
    concurrency,      \* options.concurrency || 1 (lines 35, 144)
    flushMode,        \* how the flush argument completes (line 33 is "sync_ok")
    flowing,          \* transform: the consumer listens to 'data'
    \* the stage object
    pending,          \* writable.pending / transform.pending
    freeL,            \* once('free') listeners, in registration order
    emptyL,           \* once('empty') listeners
    nextId,           \* identity of the next once() wrapper
    \* host: _writableState
    errorEmitted, writing, sync, bufferProcessing, wlength, buffer,
    ending, finished, prefinished, pendingcb,
    \* host: _transformState and _readableState
    transforming, needTransform, writechunk, rbuffer, rended, endEmitted,
    \* environment: the chunks, the event loop
    mode,             \* how chunk c's work completes; "none" = not yet written
    status,           \* "new", "accepted", "inflight", "done"
    ticks,            \* afterWrite calls queued with process.nextTick
    flushing,         \* the flush function has been called and not called back
    endCalled,        \* the producer has called end
    nWritten,         \* chunks handed to the stage so far
    \* observations
    invoked,          \* invoked[c]: times work was called with chunk c
    order,            \* chunks in the order work was called
    peak,             \* largest value pending ever had
    failures,         \* failures reported to a work or flush callback, in order
    errors,           \* 'error' events emitted, in order
    finishCount,      \* 'finish' events emitted
    flushCalls,       \* times the flush function was called
    flushEarly,       \* flush was called with work in flight or a chunk waiting
    endCalls,         \* calls of the host's end (lines 108, 203)
    emitted,          \* chunks delivered to the transform's consumer
    completed,        \* successful non-empty completions, in completion order
    lateDispatch,     \* chunks given to work after an error had been recorded
    lostOutput,       \* outputs pushed after the end of output
    parked,           \* chunks that have waited for 'free' (lines 55, 158)
    endParked,        \* the end request has waited for 'empty' or 'free'
    endChunk,         \* the chunk the producer gave to end, or 0
    lateFinalize      \* the end request called flush (line 106) or the host's
                      \* end (line 203) after an 'error' event

vars == << variant, concurrency, flushMode, flowing, pending, freeL, emptyL,
           nextId, errorEmitted, writing, sync, bufferProcessing, wlength,
           buffer, ending, finished, prefinished, pendingcb, transforming,
           needTransform, writechunk, rbuffer, rended, endEmitted, mode,
           status, ticks, flushing, endCalled, nWritten, invoked, order, peak,
           failures, errors, finishCount, flushCalls, flushEarly, endCalls,
           emitted, completed, lateDispatch, lostOutput, parked, endParked,
           endChunk, lateFinalize >>

Chunks == 1..MaxChunks

\* Error values: the chunk whose work failed, FlushError for the flush
\* function, EofError for the host's "stream.push() after EOF".
FlushError == MaxChunks + 1
EofError == MaxChunks + 2

\* The whole state as one record.
St ==
    [ variant |-> variant, concurrency |-> concurrency, flushMode |-> flushMode,
      flowing |-> flowing, pending |-> pending, freeL |-> freeL,
      emptyL |-> emptyL, nextId |-> nextId, errorEmitted |-> errorEmitted,
      writing |-> writing, sync |-> sync,
      bufferProcessing |-> bufferProcessing, wlength |-> wlength,
      buffer |-> buffer, ending |-> ending, finished |-> finished,
      prefinished |-> prefinished, pendingcb |-> pendingcb,
      transforming |-> transforming, needTransform |-> needTransform,
      writechunk |-> writechunk, rbuffer |-> rbuffer, rended |-> rended,
      endEmitted |-> endEmitted, mode |-> mode, status |-> status,
      ticks |-> ticks, flushing |-> flushing, endCalled |-> endCalled,
      nWritten |-> nWritten, invoked |-> invoked, order |-> order,
      peak |-> peak, failures |-> failures, errors |-> errors,
      finishCount |-> finishCount, flushCalls |-> flushCalls,
      flushEarly |-> flushEarly, endCalls |-> endCalls, emitted |-> emitted,
      completed |-> completed, lateDispatch |-> lateDispatch,
      lostOutput |-> lostOutput, parked |-> parked, endParked |-> endParked,
      endChunk |-> endChunk, lateFinalize |-> lateFinalize ]

Max(a, b) == IF a >= b THEN a ELSE b

\* Every call from one function of the program or of the host into another
\* goes through invoke, which names the function called.
RECURSIVE invoke(_, _, _)

-----------------------------------------------------------------------------
(* node events: once() and emit()                                          *)

Listeners(s, type) == IF type = "free" THEN s.freeL ELSE s.emptyL

\* stream.once(type, function () { fn(chunk ...) })
once(s, type, fn, chunk) ==
    LET l == [id |-> s.nextId, fn |-> fn, chunk |-> chunk]
        s1 == IF fn = "end"
              THEN [s EXCEPT !.endParked = TRUE]
              ELSE [s EXCEPT !.parked = @ \cup {chunk}]
    IN  IF type = "free"
        THEN [s1 EXCEPT !.freeL = Append(@, l), !.nextId = @ + 1]
        ELSE [s1 EXCEPT !.emptyL = Append(@, l), !.nextId = @ + 1]

Registered(s, type, l) ==
    \E i \in 1..Len(Listeners(s, type)) : Listeners(s, type)[i].id = l.id

removeListener(s, type, l) ==
    IF type = "free"
    THEN [s EXCEPT !.freeL = SelectSeq(@, LAMBDA x : x.id # l.id)]
    ELSE [s EXCEPT !.emptyL = SelectSeq(@, LAMBDA x : x.id # l.id)]

\* The function a once() listener wraps: lines 55-57, 75-77, 81-83, 98-100,
\* 158-160, 178-180, 195-197.
call(s, l) ==
    IF l.fn = "_write" THEN invoke(s, "_write", l.chunk)
    ELSE IF l.fn = "_transform" THEN invoke(s, "_transform", l.chunk)
    ELSE IF s.variant = "writable" THEN invoke(s, "writable.end", l.chunk)
    ELSE invoke(s, "transform.end", l.chunk)

\* emit() calls a copy of the listener list taken when it starts; a once()
\* wrapper that has already run (in a nested emit) does nothing.
fireAll(s, type, snapshot) ==
    IF snapshot = << >> THEN s
    ELSE LET l == Head(snapshot)
         IN  IF Registered(s, type, l)
             THEN invoke(call(removeListener(s, type, l), l), "emit",
                         <<type, Tail(snapshot)>>)
             ELSE invoke(s, "emit", <<type, Tail(snapshot)>>)

emit(s, type) == invoke(s, "emit", <<type, Listeners(s, type)>>)

-----------------------------------------------------------------------------
(* fail: lines 46-51 and 149-154                                           *)

fail(s, err) ==
    IF ~s.errorEmitted
    THEN [s EXCEPT !.errorEmitted = TRUE, !.errors = Append(@, err)]
    ELSE s

-----------------------------------------------------------------------------
(* Host: stream.Writable, as far as lines 37-41, 67, 71, 97, 108 use it    *)

\* _writableState.getBuffer(): the requests from bufferedRequest on.  While
\* clearBuffer runs, bufferedRequest still points at the first request it
\* started with, so the list is not shortened until the loop is over.
getBuffer(s) == s.buffer

needFinish(s) ==
    /\ s.ending
    /\ s.wlength = 0
    /\ s.buffer = << >>
    /\ ~s.finished
    /\ ~s.writing

\* Transform's done(stream), run on 'prefinish': stream.push(null).
done(s) ==
    [s EXCEPT !.rended = TRUE, !.endEmitted = (s.rbuffer = << >>)]

prefinish(s) ==
    IF s.prefinished THEN s
    ELSE IF s.variant = "transform"
         THEN done([s EXCEPT !.prefinished = TRUE])
         ELSE [s EXCEPT !.prefinished = TRUE]

finishMaybe(s) ==
    IF needFinish(s)
    THEN IF s.pendingcb = 0
         THEN [prefinish(s) EXCEPT !.finished = TRUE, !.finishCount = @ + 1]
         ELSE prefinish(s)
    ELSE s

afterWrite(s) == finishMaybe([s EXCEPT !.pendingcb = @ - 1])

doWrite(s, c) ==
    LET s1 == [s EXCEPT !.writing = TRUE, !.sync = TRUE]
        s2 == IF s.variant = "writable"
              THEN invoke(s1, "_write", c)
              ELSE \* Transform.prototype._write
                   LET t1 == [s1 EXCEPT !.writechunk = c]
                   IN  IF /\ ~t1.transforming
                          /\ t1.needTransform \/ Len(t1.rbuffer) < ReadableHWM
                       THEN invoke(t1, "_read", 0)
                       ELSE t1
    IN  [s2 EXCEPT !.sync = FALSE]

clearBufferLoop(s, i) ==
    IF i > Len(s.buffer)
    THEN [s EXCEPT !.buffer = << >>, !.bufferProcessing = FALSE]
    ELSE LET s1 == invoke(s, "doWrite", s.buffer[i])
         IN  IF s1.writing
             THEN [s1 EXCEPT !.buffer = SubSeq(@, i + 1, Len(@)),
                             !.bufferProcessing = FALSE]
             ELSE invoke(s1, "clearBuffer", i + 1)

clearBuffer(s) == invoke([s EXCEPT !.bufferProcessing = TRUE], "clearBuffer", 1)

\* _writableState.onwrite: the callback handed to _write (lines 67, 171).
onwrite(s) ==
    LET wasSync == s.sync
        s1 == [s EXCEPT !.writing = FALSE, !.wlength = @ - 1]
        s2 == IF ~needFinish(s1) /\ ~s1.bufferProcessing /\ s1.buffer # << >>
              THEN clearBuffer(s1)
              ELSE s1
    IN  IF wasSync THEN [s2 EXCEPT !.ticks = @ + 1] ELSE afterWrite(s2)

\* stream.write(chunk)
write(s, c) ==
    LET s1 == [s EXCEPT !.pendingcb = @ + 1, !.wlength = @ + 1]
    IN  IF s1.writing
        THEN [s1 EXCEPT !.buffer = Append(@, c)]
        ELSE invoke(s1, "doWrite", c)

\* The host's own end(), bound at lines 71 and 174 and called with no
\* argument at lines 108 and 203.
end(s) ==
    LET s1 == [s EXCEPT !.endCalls = @ + 1]
    IN  IF ~s1.ending /\ ~s1.finished
        THEN finishMaybe([s1 EXCEPT !.ending = TRUE])
        ELSE s1

-----------------------------------------------------------------------------
(* The work function and its callback                                      *)

\* The work callback without its emit('free').
writable_done_nofree(s, c, out) ==
    LET s1 == [s EXCEPT !.pending = @ - 1,
                        !.status[c] = "done",
                        !.failures = IF out = "err" THEN Append(@, c) ELSE @]
    IN  IF out = "err" THEN fail(s1, c) ELSE s1

\* lines 61-65: function (err) { pending--; emit('free'); if (err) fail(err) }
writable_done(s, c, out) ==
    LET s1 == [s EXCEPT !.pending = @ - 1,
                        !.status[c] = "done",
                        !.failures = IF out = "err" THEN Append(@, c) ELSE @]
        s2 == emit(s1, "free")
    IN  IF out = "err" THEN fail(s2, c) ELSE s2

\* The transform's work callback without its emit('free').
transform_done_nofree(s, c, out) ==
    LET s1 == [s EXCEPT !.pending = @ - 1,
                        !.status[c] = "done",
                        !.failures = IF out = "err" THEN Append(@, c) ELSE @]
    IN  IF out = "err" THEN fail(s1, c)
        ELSE IF out = "ok"
             THEN invoke([s1 EXCEPT !.completed = Append(@, c)], "push", c)
             ELSE s1

\* lines 164-169: function (err, data) { pending--; if (err) fail(err);
\* else if (data) push(data); emit('free') }
transform_done(s, c, out) ==
    LET s1 == [s EXCEPT !.pending = @ - 1,
                        !.status[c] = "done",
                        !.failures = IF out = "err" THEN Append(@, c) ELSE @]
        s2 == IF out = "err" THEN fail(s1, c)
              ELSE IF out = "ok"
                   THEN invoke([s1 EXCEPT !.completed = Append(@, c)], "push", c)
                   ELSE s1
    IN  emit(s2, "free")

\* A work callback that returns on an error before it decrements pending.
workCallback_errfirst(s, c, out) ==
    IF out = "err"
    THEN fail([s EXCEPT !.status[c] = "done", !.failures = Append(@, c)], c)
    ELSE IF s.variant = "writable"
         THEN writable_done(s, c, out)
         ELSE transform_done(s, c, out)

workCallback(s, c, out) ==
    IF s.variant = "writable"
    THEN writable_done(s, c, out)
    ELSE transform_done(s, c, out)

\* work.call(stream, chunk, enc, callback): the user's function either calls
\* the callback before it returns or leaves it to a later event.
work(s, c) ==
    LET s1 == [s EXCEPT !.status[c] = "inflight",
                        !.invoked[c] = @ + 1,
                        !.order = Append(@, c),
                        !.lateDispatch = IF s.errorEmitted THEN @ \cup {c} ELSE @]
    IN  CASE s.mode[c] = "async"     -> s1
          [] s.mode[c] = "sync_ok"   -> workCallback(s1, c, "ok")
          [] s.mode[c] = "sync_err"  -> workCallback(s1, c, "err")

\* The limit test off by one, as "pending > concurrency".
SaturatedOffByOne(s) == s.pending > s.concurrency

\* lines 54 and 157
Saturated(s) == s.pending >= s.concurrency

\* lines 60 and 163
Admit(s) == [s EXCEPT !.pending = @ + 1, !.peak = Max(@, s.pending + 1)]

-----------------------------------------------------------------------------
(* The writable: lines 28-113                                              *)

\* lines 38-42
internal(s) == getBuffer(s)

\* _write that, when the limit is reached, puts the chunk first among the
\* listeners of 'free' and lets the host go on to the next chunk.
writable_write_overtake(s, c) ==
    IF Saturated(s)
    THEN LET l == [id |-> s.nextId, fn |-> "_write", chunk |-> c]
         IN  [s EXCEPT !.freeL = <<l>> \o @, !.nextId = @ + 1,
                       !.parked = @ \cup {c}, !.writing = FALSE]
    ELSE LET s1 == invoke(Admit(s), "work", c)
             s2 == invoke(s1, "onwrite", 0)
         IN  IF Len(internal(s2)) = 0 THEN emit(s2, "empty") ELSE s2

\* lines 53-69
writable_write(s, c) ==
    IF Saturated(s)
    THEN once(s, "free", "_write", c)
    ELSE LET s1 == invoke(Admit(s), "work", c)
             s2 == invoke(s1, "onwrite", 0)
         IN  IF Len(internal(s2)) = 0 THEN emit(s2, "empty") ELSE s2

\* A flush callback that goes on to end() after reporting the failure.
flushCallback_noreturn(s, err) ==
    IF err
    THEN end(fail([s EXCEPT !.failures = Append(@, FlushError)], FlushError))
    ELSE end(s)

\* lines 106-109: function (err) { if (err) return fail(err); end() }
flushCallback(s, err) ==
    IF err
    THEN fail([s EXCEPT !.failures = Append(@, FlushError)], FlushError)
    ELSE end(s)

\* A flush whose callback is called at once although the flush function is
\* still running.
flush_nowait(s) ==
    LET s1 == [s EXCEPT !.flushCalls = @ + 1]
    IN  CASE s.flushMode = "async"    -> flushCallback([s1 EXCEPT !.flushing = TRUE], FALSE)
          [] s.flushMode = "sync_ok"  -> flushCallback(s1, FALSE)
          [] s.flushMode = "sync_err" -> flushCallback(s1, TRUE)

\* flush(callback), line 106; line 33 is the default, which calls back at once
flush(s) ==
    LET s1 == [s EXCEPT !.flushCalls = @ + 1,
                        !.lateFinalize = @ \/ s.errors # << >>,
                        !.flushEarly = \/ @
                                       \/ s.pending > 0
                                       \/ \E c \in Chunks : s.status[c] = "accepted"]
    IN  CASE s.flushMode = "async"    -> [s1 EXCEPT !.flushing = TRUE]
          [] s.flushMode = "sync_ok"  -> flushCallback(s1, FALSE)
          [] s.flushMode = "sync_err" -> flushCallback(s1, TRUE)

\* end without the test of pending at lines 80-84.
writable_end_nowait(s, chunk) ==
    IF Len(internal(s)) # 0 THEN once(s, "empty", "end", chunk)
    ELSE IF chunk # 0 THEN once(invoke(s, "write", chunk), "free", "end", 0)
    ELSE IF s.errorEmitted THEN s
    ELSE flush(s)

\* end registering its retry twice when it has to wait for work in flight.
writable_end_twice(s, chunk) ==
    IF Len(internal(s)) # 0 THEN once(s, "empty", "end", chunk)
    ELSE IF s.pending # 0
         THEN once(once(s, "free", "end", chunk), "free", "end", chunk)
    ELSE IF chunk # 0 THEN once(invoke(s, "write", chunk), "free", "end", 0)
    ELSE IF s.errorEmitted THEN s
    ELSE flush(s)

\* lines 73-110; chunk = 0 stands for no chunk argument
writable_end(s, chunk) ==
    IF Len(internal(s)) # 0 THEN once(s, "empty", "end", chunk)
    ELSE IF s.pending # 0 THEN once(s, "free", "end", chunk)
    ELSE IF chunk # 0 THEN once(invoke(s, "write", chunk), "free", "end", 0)
    ELSE IF s.errorEmitted THEN s
    ELSE flush(s)

-----------------------------------------------------------------------------
(* The transform: lines 142-207, on the host's stream.Transform            *)

\* Transform.prototype._read
Transform_read(s) ==
    IF s.writechunk # 0 /\ ~s.transforming
    THEN invoke([s EXCEPT !.transforming = TRUE], "_transform", s.writechunk)
    ELSE [s EXCEPT !.needTransform = TRUE]

\* push that puts the output in front of the outputs not yet read.
push_first(s, data) ==
    LET s1 == [s EXCEPT !.needTransform = FALSE]
    IN  IF s1.rended
        THEN [s1 EXCEPT !.errors = Append(@, EofError),
                        !.lostOutput = @ \cup {data}]
        ELSE IF s1.flowing /\ s1.rbuffer = << >>
             THEN invoke([s1 EXCEPT !.emitted = Append(@, data)], "_read", 0)
             ELSE [s1 EXCEPT !.rbuffer = <<data>> \o @]

\* Transform.prototype.push(data), line 167
push(s, data) ==
    LET s1 == [s EXCEPT !.needTransform = FALSE]
    IN  IF s1.rended
        THEN \* "stream.push() after EOF": the host emits 'error' itself
             [s1 EXCEPT !.errors = Append(@, EofError),
                        !.lostOutput = @ \cup {data}]
        ELSE IF s1.flowing /\ s1.rbuffer = << >>
             THEN invoke([s1 EXCEPT !.emitted = Append(@, data)], "_read", 0)
             ELSE [s1 EXCEPT !.rbuffer = Append(@, data)]

\* _transformState.afterTransform: the callback handed to _transform (line 171)
afterTransform(s) ==
    LET s1 == invoke([s EXCEPT !.transforming = FALSE, !.writechunk = 0],
                     "onwrite", 0)
    IN  IF Len(s1.rbuffer) < ReadableHWM THEN invoke(s1, "_read", 0) ELSE s1

\* lines 156-172
transform_transform(s, c) ==
    IF Saturated(s)
    THEN once(s, "free", "_transform", c)
    ELSE afterTransform(invoke(Admit(s), "work", c))

\* end without the test of errorEmitted at line 201.
transform_end_noguard(s, chunk) ==
    IF s.pending # 0 THEN once(s, "free", "end", chunk)
    ELSE IF chunk # 0 THEN once(invoke(s, "write", chunk), "free", "end", 0)
    ELSE end([s EXCEPT !.lateFinalize = @ \/ s.errors # << >>])

\* lines 176-204
transform_end(s, chunk) ==
    IF s.pending # 0 THEN once(s, "free", "end", chunk)
    ELSE IF chunk # 0 THEN once(invoke(s, "write", chunk), "free", "end", 0)
    ELSE IF s.errorEmitted THEN s
    ELSE end([s EXCEPT !.lateFinalize = @ \/ s.errors # << >>])

invoke(s, f, arg) ==
    CASE f = "emit"          -> fireAll(s, arg[1], arg[2])
      [] f = "_write"        -> writable_write(s, arg)
      [] f = "writable.end"  -> writable_end(s, arg)
      [] f = "_transform"    -> transform_transform(s, arg)
      [] f = "transform.end" -> transform_end(s, arg)
      [] f = "write"         -> write(s, arg)
      [] f = "doWrite"       -> doWrite(s, arg)
      [] f = "clearBuffer"   -> clearBufferLoop(s, arg)
      [] f = "onwrite"       -> onwrite(s)
      [] f = "work"          -> work(s, arg)
      [] f = "_read"         -> Transform_read(s)
      [] f = "push"          -> push(s, arg)

-----------------------------------------------------------------------------
(* The state machine                                                       *)

\* How a chunk's work completes: by a later event ("async"), or before work
\* returns, with no error (and, in the transform, with data) or with an error.
Modes == {"async", "sync_ok", "sync_err"}

Outcomes(v) ==
    IF v = "writable" THEN {"ok", "err"} ELSE {"ok", "null", "err"}

Init ==
    /\ variant \in {"writable", "transform"}
    /\ concurrency \in 1..MaxConcurrency
    /\ flushMode \in IF variant = "writable"
                     THEN {"sync_ok", "sync_err", "async"}
                     ELSE {"sync_ok"}
    /\ flowing \in IF variant = "transform" THEN BOOLEAN ELSE {TRUE}
    /\ pending = 0
    /\ freeL = << >>
    /\ emptyL = << >>
    /\ nextId = 1
    /\ errorEmitted = FALSE
    /\ writing = FALSE
    /\ sync = TRUE
    /\ bufferProcessing = FALSE
    /\ wlength = 0
    /\ buffer = << >>
    /\ ending = FALSE
    /\ finished = FALSE
    /\ prefinished = FALSE
    /\ pendingcb = 0
    /\ transforming = FALSE
    /\ needTransform = FALSE
    /\ writechunk = 0
    /\ rbuffer = << >>
    /\ rended = FALSE
    /\ endEmitted = FALSE
    /\ mode = [c \in Chunks |-> "none"]
    /\ status = [c \in Chunks |-> "new"]
    /\ ticks = 0
    /\ flushing = FALSE
    /\ endCalled = FALSE
    /\ nWritten = 0
    /\ invoked = [c \in Chunks |-> 0]
    /\ order = << >>
    /\ peak = 0
    /\ failures = << >>
    /\ errors = << >>
    /\ finishCount = 0
    /\ flushCalls = 0
    /\ flushEarly = FALSE
    /\ endCalls = 0
    /\ emitted = << >>
    /\ completed = << >>
    /\ lateDispatch = {}
    /\ lostOutput = {}
    /\ parked = {}
    /\ endParked = FALSE
    /\ endChunk = 0
    /\ lateFinalize = FALSE

\* Between two callbacks no emit is running, so only the order of the
\* once() wrappers matters: they are renumbered from 1.
Normalize(s) ==
    LET nf == Len(s.freeL)
        ne == Len(s.emptyL)
    IN  [s EXCEPT !.freeL = [i \in 1..nf |-> [s.freeL[i] EXCEPT !.id = i]],
                  !.emptyL = [i \in 1..ne |-> [s.emptyL[i] EXCEPT !.id = nf + i]],
                  !.nextId = nf + ne + 1]

Apply(t) ==
    LET s == Normalize(t)
    IN
       /\ variant' = s.variant
       /\ concurrency' = s.concurrency
       /\ flushMode' = s.flushMode
       /\ flowing' = s.flowing
       /\ pending' = s.pending
       /\ freeL' = s.freeL
       /\ emptyL' = s.emptyL
       /\ nextId' = s.nextId
       /\ errorEmitted' = s.errorEmitted
       /\ writing' = s.writing
       /\ sync' = s.sync
       /\ bufferProcessing' = s.bufferProcessing
       /\ wlength' = s.wlength
       /\ buffer' = s.buffer
       /\ ending' = s.ending
       /\ finished' = s.finished
       /\ prefinished' = s.prefinished
       /\ pendingcb' = s.pendingcb
       /\ transforming' = s.transforming
       /\ needTransform' = s.needTransform
       /\ writechunk' = s.writechunk
       /\ rbuffer' = s.rbuffer
       /\ rended' = s.rended
       /\ endEmitted' = s.endEmitted
       /\ mode' = s.mode
       /\ status' = s.status
       /\ ticks' = s.ticks
       /\ flushing' = s.flushing
       /\ endCalled' = s.endCalled
       /\ nWritten' = s.nWritten
       /\ invoked' = s.invoked
       /\ order' = s.order
       /\ peak' = s.peak
       /\ failures' = s.failures
       /\ errors' = s.errors
       /\ finishCount' = s.finishCount
       /\ flushCalls' = s.flushCalls
       /\ flushEarly' = s.flushEarly
       /\ endCalls' = s.endCalls
       /\ emitted' = s.emitted
       /\ completed' = s.completed
       /\ lateDispatch' = s.lateDispatch
       /\ lostOutput' = s.lostOutput
       /\ parked' = s.parked
       /\ endParked' = s.endParked
       /\ endChunk' = s.endChunk
       /\ lateFinalize' = s.lateFinalize

\* The producer calls stream.write(chunk).
Write(m) ==
    /\ ~endCalled
    /\ nWritten < MaxChunks
    /\ m \in Modes
    /\ LET c == nWritten + 1
       IN  Apply(invoke([St EXCEPT !.mode[c] = m,
                                  !.status[c] = "accepted",
                                  !.nWritten = c], "write", c))

\* The producer calls stream.end(), once, after its last write.
End ==
    /\ ~endCalled
    /\ LET s == [St EXCEPT !.endCalled = TRUE]
       IN  Apply(IF variant = "writable"
                 THEN writable_end(s, 0)
                 ELSE transform_end(s, 0))

\* The producer calls stream.end(chunk), once, after its last write.
EndWithChunk(m) ==
    /\ ~endCalled
    /\ nWritten < MaxChunks
    /\ m \in Modes
    /\ LET c == nWritten + 1
           s == [St EXCEPT !.mode[c] = m,
                           !.status[c] = "accepted",
                           !.nWritten = c,
                           !.endCalled = TRUE,
                           !.endChunk = c]
       IN  Apply(IF variant = "writable"
                 THEN writable_end(s, c)
                 ELSE transform_end(s, c))

\* The callbacks the host queued with process.nextTick run before the event
\* loop delivers a later event.
LaterEvent == ticks = 0

\* A work invocation that did not complete before returning calls back:
\* with no error, with no error and no data (transform), or with an error.
WorkDone(c, out) ==
    /\ LaterEvent
    /\ status[c] = "inflight"
    /\ mode[c] = "async"
    /\ out \in Outcomes(variant)
    /\ Apply(workCallback(St, c, out))

\* An asynchronous flush function calls back.
FlushDone(err) ==
    /\ LaterEvent
    /\ flushing
    /\ Apply(flushCallback([St EXCEPT !.flushing = FALSE], err))

\* One afterWrite queued with process.nextTick runs.
Tick ==
    /\ ticks > 0
    /\ Apply(afterWrite([St EXCEPT !.ticks = @ - 1]))

\* A chunk the host holds back because the consumer has not asked for
\* more output: written to Transform.prototype._write, not yet transformed.
Stalled(s) == s.writechunk # 0 /\ ~s.transforming

\* The consumer of a paused transform calls read(): the host asks for more
\* (_read) unless the output has ended or stays above the high-water mark,
\* and hands over the oldest output, if there is one.
Read ==
    /\ LaterEvent
    /\ variant = "transform"
    /\ ~flowing
    /\ rbuffer # << >> \/ Stalled(St)
    /\ LET doRead == /\ ~rended
                     /\ Len(rbuffer) = 0 \/ Len(rbuffer) - 1 < ReadableHWM
           s1 == IF doRead THEN invoke(St, "_read", 0) ELSE St
       IN  Apply(IF s1.rbuffer = << >>
                 THEN s1
                 ELSE [s1 EXCEPT !.emitted = Append(@, Head(s1.rbuffer)),
                                 !.rbuffer = Tail(@),
                                 !.endEmitted = s1.rended /\ Len(s1.rbuffer) = 1])

Next ==
    \/ \E m \in Modes : Write(m)
    \/ End
    \/ \E m \in Modes : EndWithChunk(m)
    \/ \E c \in Chunks, out \in Outcomes(variant) : WorkDone(c, out)
    \/ \E err \in BOOLEAN : FlushDone(err)
    \/ Tick
    \/ Read

Spec == Init /\ [][Next]_vars

-----------------------------------------------------------------------------
(* Properties                                                              *)

\* Nothing is left to happen but producer calls: no work in flight, no
\* queued host callback, no flush running, and the consumer has read
\* everything and has no chunk held back for it.
Quiescent ==
    /\ \A c \in Chunks : status[c] # "inflight"
    /\ ticks = 0
    /\ ~flushing
    /\ rbuffer = << >>
    /\ ~Stalled(St)

Written == 1..nWritten

WorkFailed == \E i \in 1..Len(failures) : failures[i] \in Chunks

Occurrences(seq, x) == Cardinality({i \in 1..Len(seq) : seq[i] = x})

\* C1. Concurrency bound: in both variants the in-flight counter never
\* exceeds the concurrency limit, neither between two callbacks nor at the
\* moment of any increment (peak records every value pending has had).
ConcurrencyBound ==
    /\ pending <= concurrency
    /\ peak <= concurrency

\* C1 witness: a chunk that was parked on 'free' because the limit was
\* reached has been dispatched after the re-check, and the stage is at its
\* limit again.
ParkedThenAdmitted ==
    /\ \E c \in parked : status[c] = "inflight"
    /\ pending = concurrency
    /\ Len(order) > concurrency

\* C2. Single completion: a stage never delivers both an 'error' and a
\* 'finish' notification.
SingleCompletion == ~(errors # << >> /\ finishCount > 0)

\* C3. In the writable, once a work invocation has reported a failure the
\* flush function is never called and 'finish' is never emitted.
NoFinalizeAfterWorkFailure ==
    (variant = "writable" /\ WorkFailed) => (flushCalls = 0 /\ finishCount = 0)

\* C4. Drain before finalize: the writable calls the flush function only
\* when pending = 0 and no accepted chunk is still waiting to be given to
\* work (flushEarly records any call of flush made otherwise).
DrainBeforeFinalize == variant = "writable" => ~flushEarly

\* C4 witness: flush has been called after the end request had to wait,
\* with chunks that had been parked on 'free', all of them processed.
FlushAfterDrain ==
    /\ variant = "writable"
    /\ flushCalls = 1
    /\ endParked
    /\ parked # {}
    /\ nWritten = MaxChunks
    /\ \A c \in Written : status[c] = "done"

\* C5. First error wins: at most one 'error' event is emitted per stage and
\* it carries the first failure that was reported to a callback.
FirstErrorWins ==
    /\ Len(errors) <= 1
    /\ (errors # << >> /\ failures # << >>) => errors[1] = failures[1]

\* C6. No deadlock on end: when the producer has called end, no failure has
\* been reported and nothing is left to happen, 'finish' has been emitted.
EndReachesFinish ==
    (Quiescent /\ endCalled /\ failures = << >>) => finishCount = 1

\* C7. No lost work: work is never called twice with the same chunk, and
\* when nothing is left to happen (every dispatched work has called back)
\* every chunk the producer handed over has been given to work once.
NoLostWork ==
    /\ \A c \in Chunks : invoked[c] <= 1
    /\ Quiescent => \A c \in Written : invoked[c] = 1

\* C7 witness: all chunks were handed over, some had been parked on 'free',
\* and every one has been given to work.
ParkedWorkDone ==
    /\ Quiescent
    /\ nWritten = MaxChunks
    /\ parked # {}
    /\ \A c \in Written : invoked[c] = 1 /\ status[c] = "done"

\* C8. Synchronous completion: when every work function calls back before
\* it returns, without error, then once the producer has called end (with
\* or without a chunk) and nothing is left to happen, every chunk has been
\* processed and 'finish' has been emitted.
SyncCompletionFinishes ==
    (/\ Quiescent
     /\ endCalled
     /\ \A c \in Written : mode[c] = "sync_ok"
     /\ flushMode = "sync_ok")
        => (finishCount = 1 /\ \A c \in Written : invoked[c] = 1)

\* C9. Error halts admission: no chunk is given to work after an error has
\* been recorded.
ErrorHaltsAdmission == lateDispatch = {}

\* C10. Output completeness: in the transform no output of a successful
\* completion is dropped or delivered twice, and when nothing is left to
\* happen every such output has been delivered to the consumer once.
OutputComplete ==
    variant = "transform" =>
        /\ lostOutput = {}
        /\ \A c \in Chunks : Occurrences(emitted, c) <= 1
        /\ Quiescent =>
               \A i \in 1..Len(completed) : Occurrences(emitted, completed[i]) = 1

\* C11. The transform reports completion only after all work: once the
\* host's end has been called (lines 203), or the end of output or 'finish'
\* has been reported, every chunk the producer handed over has completed
\* its work, and no output is pushed after the end of output.
EndAfterAllWork ==
    (variant = "transform" /\ (endCalls > 0 \/ rended \/ finishCount > 0))
        => /\ \A c \in Written : status[c] = "done"
           /\ lostOutput = {}

\* C12. In the writable, 'finish' is emitted only after the flush function
\* has been called and has called back without error, and with no work in
\* flight: never while flush is still running.
FinishAfterFlush ==
    (variant = "writable" /\ finishCount > 0)
        => /\ flushCalls >= 1
           /\ ~flushing
           /\ \A i \in 1..Len(failures) : failures[i] # FlushError
           /\ pending = 0

\* C12 witness: an asynchronous flush has called back and 'finish' has been
\* emitted, after chunks that had to wait for a free slot.
FinishedAfterAsyncFlush ==
    /\ variant = "writable"
    /\ flushMode = "async"
    /\ finishCount = 1
    /\ flushCalls = 1
    /\ parked # {}
    /\ nWritten = MaxChunks

FlushFailed == \E i \in 1..Len(failures) : failures[i] = FlushError

\* C13. Flush failure: when the writable's flush function has called back
\* with an error, the stage has emitted 'error' (the flush failure itself
\* when it is the first failure reported), the host's end has not been
\* called and 'finish' is not emitted.
FlushFailureErrors ==
    (variant = "writable" /\ FlushFailed)
        => /\ errorEmitted
           /\ Len(errors) = 1
           /\ failures[1] = FlushError => errors[1] = FlushError
           /\ endCalls = 0
           /\ finishCount = 0
           /\ ~finished

\* C13 witness: an asynchronous flush, called after all chunks had been
\* processed without failure, has called back with an error.
AsyncFlushFailed ==
    /\ variant = "writable"
    /\ flushMode = "async"
    /\ failures = <<FlushError>>
    /\ errors = <<FlushError>>
    /\ nWritten = MaxChunks
    /\ ~flushing

\* C14. End after an error is a no-op: in both variants the end request,
\* when it is called or when its deferred re-check runs after an 'error'
\* event, calls neither the flush function nor the host's end; and when the
\* stage has recorded an error and neither was called, 'finish' is not
\* emitted.
EndAfterErrorIsNoop ==
    /\ ~lateFinalize
    /\ (errors # << >> /\ flushCalls = 0 /\ endCalls = 0) => finishCount = 0

\* C14 witness: the producer has called end, the end request had to wait
\* with work in flight, an error was emitted, and the re-check has run and
\* returned without calling flush or the host's end: nothing is left to
\* happen and no listener is waiting.
EndIgnoredAfterError ==
    /\ endCalled
    /\ endParked
    /\ errorEmitted
    /\ Quiescent
    /\ freeL = << >>
    /\ emptyL = << >>
    /\ flushCalls = 0
    /\ endCalls = 0
    /\ finishCount = 0

\* C15. Flush at most once: the writable calls the flush function at most
\* once, and exactly once when 'finish' has been emitted.
FlushAtMostOnce ==
    variant = "writable"
        => /\ flushCalls <= 1
           /\ finishCount > 0 => flushCalls = 1

\* C15 witness: the end request was given a chunk while work was in flight,
\* so it waited for 'free', wrote its chunk, waited again, and then called
\* flush once; 'finish' has been emitted.
FinishedAfterDeferredEnd ==
    /\ variant = "writable"
    /\ endParked
    /\ endChunk # 0
    /\ parked # {}
    /\ flushCalls = 1
    /\ finishCount = 1

\* C16. FIFO admission: in both variants work is called with the chunks in
\* the order in which the producer handed them over (chunks are numbered
\* in that order).
FifoAdmission ==
    \A i, j \in 1..Len(order) : i < j => order[i] < order[j]

\* C16 witness: all chunks have been given to work, one of them after
\* waiting for 'free', and a later chunk completed before an earlier one.
ParkedAdmittedInOrder ==
    /\ Len(order) = MaxChunks
    /\ parked # {}
    /\ \E c, d \in Chunks : c < d /\ status[c] = "inflight" /\ status[d] = "done"

\* C17. Serial case: with concurrency = 1 at most one work invocation is
\* in flight at any time, and the outputs the transform delivers are in
\* the order of the chunks they come from (chunks are numbered in input
\* order), whether work completes before returning or later.
SerialKeepsOrder ==
    concurrency = 1
        => /\ pending <= 1
           /\ peak <= 1
           /\ Cardinality({c \in Chunks : status[c] = "inflight"}) <= 1
           /\ variant = "transform"
                  => \A i, j \in 1..Len(emitted) : i < j => emitted[i] < emitted[j]

\* C17 witness: a serial transform has delivered the outputs of all
\* chunks, whose work completed partly at once and partly later.
SerialAllEmitted ==
    /\ variant = "transform"
    /\ concurrency = 1
    /\ Len(emitted) = MaxChunks
    /\ \E c \in Chunks : mode[c] = "async"
    /\ \E c \in Chunks : mode[c] = "sync_ok"

InFlight == {c \in Chunks : status[c] = "inflight"}

\* C18. Accounting: in every state of either variant pending is the number
\* of work invocations that have been called and have not called back, so
\* it is never negative; before and after an error.
PendingCountsInFlight ==
    /\ pending = Cardinality(InFlight)
    /\ pending >= 0

\* C18 witness: after an error was emitted, work was called again, one such
\* invocation has called back and another is still in flight.
CountedAfterError ==
    /\ errorEmitted
    /\ \E c \in lateDispatch : status[c] = "done"
    /\ \E c \in lateDispatch : status[c] = "inflight"
    /\ pending > 0

\* A chunk is waiting for 'free': its retry of _write / _transform is
\* registered (lines 55, 158).
ChunkWaiting ==
    \E i \in 1..Len(freeL) : freeL[i].fn \in {"_write", "_transform"}

CompletionOrderOutput ==
    variant = "transform" => emitted \o rbuffer = completed

=============================================================================
